---- MODULE Spec2Model ----
(***************************************************************************)
(* HttpxClient of AnonXMusic/platforms/_httpx.py: the retry loop of        *)
(* make_request and the streaming download path of download_file, with the *)
(* transport, the filesystem and the logger as the environment.            *)
(*                                                                         *)
(* Strings (URLs, header values, file names) are sequences of tokens, each *)
(* token standing for a run of characters; a prefix of tokens is a prefix  *)
(* of characters.  Optional[T] is a set of at most one T (None is {}).     *)
(***************************************************************************)
EXTENDS Integers, Sequences, FiniteSets, TLC

VARIABLES
    API_URL,    \* config.API_URL, fixed at process start
    fs,         \* the files of the filesystem: resolved path -> content
    dirs,       \* the directories of the filesystem
    args,       \* per call: the arguments of the running call
    loc,        \* per call: the local variables and position of the call
    obs,        \* per call: what the call did and met (requests and how each
                \* ended, sleeps, log entries, whether it opened the file,
                \* the sizes of the chunks written, whether it was cancelled)
    ret,        \* per call: how the call ended
    pre         \* per call: the filesystem when the call was made

vars == <<API_URL, fs, dirs, args, loc, obs, ret, pre>>

----------------------------------------------------------------------------
(* Bounds *)

MaxRetries == 3

(* Program constants *)

CHUNK_SIZE == 8192
MAX_RETRIES == 2
BACKOFF_FACTOR == 1

----------------------------------------------------------------------------
(* Optional values *)

None == {}
Some(x) == {x}
The(s) == CHOOSE x \in s : TRUE

(* Strings as token sequences *)

StartsWith(s, p) == Len(p) <= Len(s) /\ SubSeq(s, 1, Len(p)) = p

IsSep(t) == t \in {"/", "//"}

----------------------------------------------------------------------------
(* Configuration (config.py): DOWNLOADS_DIR, API_KEY, API_URL *)

DOWNLOADS_DIR == <<"downloads">>
API_KEY == "secret"

ApiUrls ==
    { <<>>,
      <<"https:", "//", "api.x">>,
      <<"https:", "//", "api.x", "/", "v1">> }

(* The URLs callers pass *)

Urls ==
    { <<>>,
      <<"https:", "//", "api.x", "/", "v1", "/", "a">>,
      <<"https:", "//", "api.x", "/", "b">>,
      <<"https:", "//", "api.x", ".evil", "/", "a">>,
      <<"https:", "//", "api.x", ":8443", "/", "a">>,
      <<"https:", "//", "cdn.y", "/", "..">>,
      <<"/">> }

(* The header sets callers pass (kwargs["headers"]): header name -> value *)

NoHeaders == [h \in {} |-> ""]

BaseHeaders == { NoHeaders, [h \in {"Accept"} |-> "*/*"] }

----------------------------------------------------------------------------
(* _get_headers: copy the base set; add X-API-Key when API_URL is not    *)
(* empty and is a prefix of the url                                       *)

WantsApiKey(url) == API_URL # <<>> /\ StartsWith(url, API_URL)

_get_headers(url, base_headers) ==
    IF WantsApiKey(url)
    THEN [h \in DOMAIN base_headers \cup {"X-API-Key"} |->
            IF h = "X-API-Key" THEN API_KEY ELSE base_headers[h]]
    ELSE base_headers

----------------------------------------------------------------------------
(* Exceptions: the classes the handlers tell apart, with their bases       *)

Bases(e) ==
    CASE e = "HTTPStatusError"  -> {"HTTPStatusError", "HTTPError", "Exception"}
      [] e = "TooManyRedirects" -> {"TooManyRedirects", "RequestError", "HTTPError", "Exception"}
      [] e = "ReadTimeout"      -> {"ReadTimeout", "TransportError", "RequestError", "HTTPError", "Exception"}
      [] e = "ConnectError"     -> {"ConnectError", "TransportError", "RequestError", "HTTPError", "Exception"}
      [] e = "ReadError"        -> {"ReadError", "TransportError", "RequestError", "HTTPError", "Exception"}
      [] e = "UnsupportedProtocol" ->
            {"UnsupportedProtocol", "TransportError", "RequestError", "HTTPError", "Exception"}
      [] e = "ResponseNotRead"  -> {"ResponseNotRead", "RuntimeError", "Exception"}
      [] e = "JSONDecodeError"  -> {"JSONDecodeError", "ValueError", "Exception"}
      [] e = "OSError"          -> {"OSError", "Exception"}
      [] e = "RuntimeError"     -> {"RuntimeError", "Exception"}
      [] e = "AttributeError"   -> {"AttributeError", "Exception"}
      [] e = "CancelledError"   -> {"CancelledError", "BaseException"}
      [] OTHER                  -> {}

isinstance(e, cls) == cls \in Bases(e)

(* Response bodies and response.json()                                     *)

JsonTexts == {"{\"result\": 42}", "{\"error\": \"boom\"}", "[1]", "<html>"}

IsJson(text) == text \in {"{\"result\": 42}", "{\"error\": \"boom\"}", "[1]"}

JsonLoads(text) ==
    CASE text = "{\"result\": 42}"    -> [type |-> "dict", items |-> {<<"result", "42">>}]
      [] text = "{\"error\": \"boom\"}" -> [type |-> "dict", items |-> {<<"error", "boom">>}]
      [] text = "[1]"                 -> [type |-> "list", items |-> {<<"0", "1">>}]

HasKey(v, k) == v.type = "dict" /\ \E kv \in v.items : kv[1] = k
Get(v, k) == (CHOOSE kv \in v.items : kv[1] = k)[2]

(* response.raise_for_status(): HTTPStatusError unless 2xx                 *)

is_success(status) == status \in 200..299

(* What one GET of make_request meets: the exception session.get raises   *)
(* ("" when it returns a response), and the response's status and body    *)

(* The session was made without a base URL (line 44): a URL without a    *)
(* scheme is refused with UnsupportedProtocol before anything is sent     *)
HasScheme(url) == Len(url) >= 2 /\ url[1] = "https:" /\ url[2] = "//"

GetOutcomes(url) ==
    IF HasScheme(url)
    THEN [exc : {""}, status : {200}, body : {"{\"result\": 42}", "[1]", "<html>"}]
         \cup [exc : {""}, status : {500}, body : {"{\"error\": \"boom\"}", "[1]", "<html>"}]
         \cup [exc : {"TooManyRedirects", "ConnectError", "RuntimeError"},
               status : {0}, body : {""}]
    ELSE [exc : {"UnsupportedProtocol"}, status : {0}, body : {""}]

(* Log entries and messages *)

Msg(fmt, status, detail) == [fmt |-> fmt, status |-> status, detail |-> detail]

Log(o, level, msg) == [o EXCEPT !.log = Append(@, [level |-> level, msg |-> msg])]

----------------------------------------------------------------------------
(* Paths.  A Path is the sequence of its parts as pathlib keeps them: the  *)
(* root "/" first when absolute, no "." parts, ".." parts kept.  The      *)
(* filesystem resolves a path from the working directory, part by part.   *)

CWD == <<"/", "app">>

RECURSIVE PathParts(_)
PathParts(str) ==
    IF str = <<>> THEN <<>>
    ELSE LET rest == PathParts(Tail(str)) IN
         IF IsSep(Head(str)) \/ Head(str) = "." THEN rest ELSE <<Head(str)>> \o rest

(* Path(str) *)
Path(str) ==
    IF str # <<>> /\ Head(str) = "/" THEN <<"/">> \o PathParts(str) ELSE PathParts(str)

IsAbsolute(path) == path # <<>> /\ Head(path) = "/"

(* Path.name: the last part, "" for the root or the empty path *)
PathName(path) ==
    IF path = <<>> \/ path = <<"/">> THEN "" ELSE path[Len(path)]

(* Path.parent: the path without its last part *)
PathParent(path) ==
    IF path = <<>> \/ path = <<"/">> THEN path ELSE SubSeq(path, 1, Len(path) - 1)

(* Path(a) / b: an absolute b replaces a *)
JoinPath(a, b) == IF IsAbsolute(b) THEN b ELSE a \o b

(* urllib.parse.unquote: percent escapes become the characters they name *)
RECURSIVE unquote(_)
unquote(str) ==
    IF str = <<>> THEN <<>>
    ELSE LET t == Head(str) IN
         <<(CASE t = "%2F" -> "/" [] t = "%2E%2E" -> ".." [] OTHER -> t)>>
         \o unquote(Tail(str))

(* line 87: re.search(r'filename="?([^"]+)"?', cd): group 1 of the first  *)
(* match, None when there is none                                         *)
RECURSIVE RunNoQuote(_, _)
RunNoQuote(cd, i) ==
    IF i > Len(cd) \/ cd[i] = "\"" THEN <<>> ELSE <<cd[i]>> \o RunNoQuote(cd, i + 1)

MatchAt(cd, i) ==
    IF cd[i] # "filename=" THEN <<>>
    ELSE IF i + 1 <= Len(cd) /\ cd[i + 1] = "\"" THEN RunNoQuote(cd, i + 2)
    ELSE RunNoQuote(cd, i + 1)

FilenameMatch(cd) ==
    LET hits == {i \in 1..Len(cd) : MatchAt(cd, i) # <<>>} IN
    IF hits = {} THEN None
    ELSE Some(MatchAt(cd, CHOOSE i \in hits : \A j \in hits : i <= j))

(* line 88: the file name of a download without a destination *)
Filename(cd, url) ==
    LET match == FilenameMatch(cd) IN
    IF match # None THEN unquote(The(match))
    ELSE IF PathName(Path(url)) # "" THEN <<PathName(Path(url))>>
    ELSE <<"uuid4hex">>

(* lines 85-91: the destination path *)
ResolvePath(file_path, cd, url) ==
    IF file_path = None
    THEN JoinPath(Path(DOWNLOADS_DIR), Path(Filename(cd, url)))
    ELSE Path(The(file_path))

(* The filesystem's walk of a path: the place it names, and whether every *)
(* directory on the way exists                                            *)
Up(at) == IF Len(at) <= 1 THEN <<"/">> ELSE SubSeq(at, 1, Len(at) - 1)

Step(at, part) ==
    CASE part = "/"  -> <<"/">>
      [] part = ".." -> Up(at)
      [] OTHER       -> Append(at, part)

RECURSIVE Walk(_, _, _)
Walk(ds, at, parts) ==
    IF parts = <<>> THEN [ok |-> TRUE, at |-> at]
    ELSE IF at \notin ds THEN [ok |-> FALSE, at |-> at]
    ELSE Walk(ds, Step(at, Head(parts)), Tail(parts))

Lookup(ds, path) == Walk(ds, CWD, path)

(* Path.exists() *)
Exists(files, ds, path) ==
    LET w == Lookup(ds, path) IN w.ok /\ (w.at \in ds \/ w.at \in DOMAIN files)

----------------------------------------------------------------------------
(* File contents.  A content is a sequence of extents, each the bytes     *)
(* lo..hi-1 of a source (a response body, or what was there before); no   *)
(* extent is empty and no two neighbours continue each other.             *)

Extent(src, lo, hi) == [src |-> src, lo |-> lo, hi |-> hi]

RECURSIVE Size(_)
Size(content) ==
    IF content = <<>> THEN 0
    ELSE (Head(content).hi - Head(content).lo) + Size(Tail(content))

RECURSIVE Norm(_)
Norm(content) ==
    IF content = <<>> THEN <<>>
    ELSE LET e == Head(content)
             r == Norm(Tail(content))
         IN  IF e.hi <= e.lo THEN r
             ELSE IF r # <<>> /\ Head(r).src = e.src /\ Head(r).lo = e.hi
             THEN <<Extent(e.src, e.lo, Head(r).hi)>> \o Tail(r)
             ELSE <<e>> \o r

(* the first n bytes, and what follows them *)
RECURSIVE TakeBytes(_, _)
TakeBytes(content, n) ==
    IF content = <<>> \/ n <= 0 THEN <<>>
    ELSE LET e == Head(content)
             k == e.hi - e.lo
         IN  IF k <= n THEN <<e>> \o TakeBytes(Tail(content), n - k)
             ELSE <<Extent(e.src, e.lo, e.lo + n)>>

RECURSIVE DropBytes(_, _)
DropBytes(content, n) ==
    IF content = <<>> THEN <<>>
    ELSE IF n <= 0 THEN content
    ELSE LET e == Head(content)
             k == e.hi - e.lo
         IN  IF k <= n THEN DropBytes(Tail(content), n - k)
             ELSE <<Extent(e.src, e.lo + n, e.hi)>> \o Tail(content)

(* a write of the bytes ext at offset pos of a file *)
WriteAt(content, pos, ext) ==
    LET gap == IF pos > Size(content) THEN <<Extent("zero", 0, pos - Size(content))>> ELSE <<>>
    IN  Norm(TakeBytes(content, pos) \o gap \o <<ext>>
             \o DropBytes(content, pos + (ext.hi - ext.lo)))

(* the whole body of a response, as a content *)
BodyContent(response) == Norm(<<Extent(response.body, 0, response.length)>>)

----------------------------------------------------------------------------
(* Filesystem calls *)

(* os.mkdir(path): "OK" (with the directory made), or the errno *)
OsMkdir(files, ds, path) ==
    IF path = <<>> \/ path = <<"/">> THEN [errno |-> "EEXIST", dirs |-> ds]
    ELSE LET w == Lookup(ds, PathParent(path))
             target == Step(w.at, path[Len(path)])
         IN  IF ~w.ok \/ w.at \notin ds
             THEN [errno |-> IF w.at \in DOMAIN files THEN "ENOTDIR" ELSE "ENOENT", dirs |-> ds]
             ELSE IF target \in ds \/ target \in DOMAIN files
             THEN [errno |-> "EEXIST", dirs |-> ds]
             ELSE [errno |-> "OK", dirs |-> ds \cup {target}]

IsDir(ds, path) == LET w == Lookup(ds, path) IN w.ok /\ w.at \in ds

(* line 96: Path.mkdir(parents=True, exist_ok=True): the missing parents  *)
(* first; an existing directory is no error, anything else is OSError     *)
RECURSIVE Mkdir(_, _, _)
Mkdir(files, ds, path) ==
    LET r == OsMkdir(files, ds, path) IN
    CASE r.errno = "OK" -> [ok |-> TRUE, dirs |-> r.dirs]
      [] r.errno = "ENOENT" ->
            IF PathParent(path) = path THEN [ok |-> FALSE, dirs |-> ds]
            ELSE LET up == Mkdir(files, ds, PathParent(path)) IN
                 IF ~up.ok THEN up
                 ELSE LET again == OsMkdir(files, up.dirs, path) IN
                      [ok |-> again.errno = "OK"
                                \/ (again.errno # "ENOENT" /\ IsDir(again.dirs, path)),
                       dirs |-> again.dirs]
      [] OTHER -> [ok |-> IsDir(ds, path), dirs |-> ds]

(* line 97: whether open(path, "wb") can open the file *)
CanOpen(files, ds, path) ==
    LET w == Lookup(ds, path) IN
    w.ok /\ w.at \notin ds /\ Up(w.at) \in ds

(* the file opened without truncation (mode "r+b" on an existing file) *)
OpenWB_keeps(files, at) ==
    [q \in DOMAIN files \cup {at} |-> IF q \in DOMAIN files THEN files[q] ELSE <<>>]

(* line 97: mode "wb" creates the file or truncates it to nothing *)
OpenWB(files, at) ==
    [q \in DOMAIN files \cup {at} |-> IF q = at THEN <<>> ELSE files[q]]

(* a write that never reaches the file *)
WriteFile_lost(files, at, pos, ext) == files

(* line 99: f.write(chunk) at the handle's offset *)
WriteFile(files, at, pos, ext) ==
    [q \in DOMAIN files \cup {at} |->
        IF q = at
        THEN WriteAt(IF at \in DOMAIN files THEN files[at] ELSE <<>>, pos, ext)
        ELSE files[q]]

----------------------------------------------------------------------------
(* The calls: each is one coroutine running download_file or make_request *)

Calls == {"c1", "c2"}

NoArgs ==
    [op |-> "none", url |-> <<>>, file_path |-> None, overwrite |-> FALSE,
     max_retries |-> 0, backoff_factor |-> 0, headers |-> NoHeaders]

NoResponse == [status |-> 0, cd |-> <<>>, body |-> "", length |-> 0]

NoLocals ==
    [pc |-> "idle", headers |-> NoHeaders, attempt |-> 0, path |-> None,
     response |-> NoResponse, received |-> 0, chunk |-> 0,
     stream |-> "none", f |-> "none"]

NoObs ==
    [nreq |-> 0, seen |-> <<>>, sleeps |-> <<>>, log |-> <<>>,
     opened |-> FALSE, writes |-> <<>>, cancelled |-> FALSE]

NoRet == [how |-> "none", line |-> 0, value |-> None, exc |-> ""]

Return(line, value) == [how |-> "return", line |-> line, value |-> value, exc |-> ""]
Raise(line, exc) == [how |-> "raise", line |-> line, value |-> None, exc |-> exc]

(* a caller makes its call once; what an earlier call left behind is in   *)
(* the filesystem the call starts from                                    *)
CanCall(c) == loc[c].pc = "idle"

(* the check for an empty URL left out *)
IsEmptyUrl_unchecked(url) == FALSE

(* lines 76 and 115: not url *)
IsEmptyUrl(url) == url = <<>>

----------------------------------------------------------------------------
(* make_request *)

BackoffFactors == {BACKOFF_FACTOR, 2 * BACKOFF_FACTOR}

(* a delay that grows by a fixed step instead of doubling *)
Backoff_linear(backoff_factor, attempt) == backoff_factor * 2 * attempt

(* line 168: the backoff delay after attempt *)
Backoff(backoff_factor, attempt) == backoff_factor * (2 ^ attempt)

(* lines 140, 147, 154: the last turn of the for loop *)
IsFinalAttempt(attempt, max_retries) == attempt = max_retries - 1

(* lines 130-137: the message of an HTTP status error *)
StatusErrorMsg(status, body) ==
    IF IsJson(body) /\ HasKey(JsonLoads(body), "error")
    THEN Msg("API Error %s for %s: %s", status, Get(JsonLoads(body), "error"))
    ELSE Msg("HTTP error %s for %s. Body: %s", status, body)

(* What a handler leaves: the log, and whether the call returns None,     *)
(* raises, or goes on to the sleep of line 168                            *)

Goes(o, next, line, exc) == [obs |-> o, next |-> next, line |-> line, exc |-> exc]

(* lines 139-142 and 153-156: warn; on the final attempt log the error    *)
(* and return None                                                        *)
WarnThenMaybeStop(o, msg, attempt, max_retries, line) ==
    LET o1 == Log(o, "warning", msg) IN
    IF IsFinalAttempt(attempt, max_retries)
    THEN Goes(Log(o1, "error", msg), "return", line, "")
    ELSE Goes(o1, "sleep", 168, "")

(* a status error handled as a permanent failure: no retry *)
except_HTTPStatusError_stops(o, out, attempt, max_retries) ==
    Goes(Log(o, "error", StatusErrorMsg(out.status, out.body)), "return", 142, "")

(* lines 129-142 *)
except_HTTPStatusError(o, out, attempt, max_retries) ==
    WarnThenMaybeStop(o, StatusErrorMsg(out.status, out.body), attempt, max_retries, 142)

(* lines 144-149: LOGGER is the function the other lines call as          *)
(* LOGGER(__name__); it has no attribute warning, so line 146 raises      *)
(* AttributeError inside the handler, and no later except clause of the   *)
(* same try catches it                                                    *)
except_TooManyRedirects(o, out, attempt, max_retries) ==
    Goes(o, "raise", 146, "AttributeError")

(* lines 151-156 *)
except_RequestError(o, out, attempt, max_retries) ==
    WarnThenMaybeStop(o, Msg("Request failed for %s: %s", 0, out.exc), attempt, max_retries, 156)

(* a parse failure handled as a transient one: retried *)
except_ValueError_retries(o, out, attempt, max_retries) ==
    WarnThenMaybeStop(o, Msg("Invalid JSON response from %s: %s", 0, "JSONDecodeError"),
                      attempt, max_retries, 161)

(* lines 158-161 *)
except_ValueError(o, out, attempt, max_retries) ==
    Goes(Log(o, "error", Msg("Invalid JSON response from %s: %s", 0, "JSONDecodeError")),
         "return", 161, "")

(* lines 163-166 *)
except_Exception(o, out, attempt, max_retries) ==
    Goes(Log(o, "error", Msg("Unexpected error for %s: %s", 0, out.exc)), "return", 166, "")

(* lines 122-127: the exception the try body raises, "" when it returns   *)
TryBodyRaises(out) ==
    IF out.exc # "" THEN out.exc
    ELSE IF ~is_success(out.status) THEN "HTTPStatusError"
    ELSE IF ~IsJson(out.body) THEN "JSONDecodeError"
    ELSE ""

(* lines 129-166: the first except clause whose class the exception has   *)
Handle(o, e, out, attempt, max_retries) ==
    IF isinstance(e, "HTTPStatusError") THEN except_HTTPStatusError(o, out, attempt, max_retries)
    ELSE IF isinstance(e, "TooManyRedirects") THEN except_TooManyRedirects(o, out, attempt, max_retries)
    ELSE IF isinstance(e, "RequestError") THEN except_RequestError(o, out, attempt, max_retries)
    ELSE IF isinstance(e, "ValueError") THEN except_ValueError(o, out, attempt, max_retries)
    ELSE except_Exception(o, out, attempt, max_retries)

(* lines 115-120: the call, up to the first request or an early return    *)
make_request_call(c) ==
    /\ CanCall(c)
    /\ \E url \in Urls, max_retries \in 0..MaxRetries,
          backoff_factor \in BackoffFactors, headers \in BaseHeaders :
        /\ args' = [args EXCEPT ![c] =
              [NoArgs EXCEPT !.op = "make_request", !.url = url,
                             !.max_retries = max_retries,
                             !.backoff_factor = backoff_factor, !.headers = headers]]
        /\ pre' = [pre EXCEPT ![c] = [fs |-> fs, dirs |-> dirs]]
        /\ IF IsEmptyUrl(url)
           THEN /\ obs' = [obs EXCEPT ![c] =
                      Log(NoObs, "warning", Msg("Empty URL provided", 0, ""))]
                /\ loc' = [loc EXCEPT ![c] = [NoLocals EXCEPT !.pc = "done"]]
                /\ ret' = [ret EXCEPT ![c] = Return(117, None)]
           ELSE IF 0 < max_retries
           THEN /\ obs' = [obs EXCEPT ![c] = NoObs]
                /\ loc' = [loc EXCEPT ![c] =
                      [NoLocals EXCEPT !.pc = "get",
                                       !.headers = _get_headers(url, headers)]]
                /\ ret' = [ret EXCEPT ![c] = NoRet]
           ELSE /\ obs' = [obs EXCEPT ![c] =
                      Log(NoObs, "error", Msg("All retries failed for URL: %s", 0, ""))]
                /\ loc' = [loc EXCEPT ![c] =
                      [NoLocals EXCEPT !.pc = "done",
                                       !.headers = _get_headers(url, headers)]]
                /\ ret' = [ret EXCEPT ![c] = Return(171, None)]
    /\ UNCHANGED <<API_URL, fs, dirs>>

(* lines 121-168: one attempt, from the GET to the return, the raise or   *)
(* the start of the sleep of line 168                                     *)
make_request_get(c) ==
    /\ loc[c].pc = "get"
    /\ \E out \in GetOutcomes(args[c].url) :
        LET e == TryBodyRaises(out)
            o == [obs[c] EXCEPT !.nreq = @ + 1, !.seen = Append(@, e)]
            h == Handle(o, e, out, loc[c].attempt, args[c].max_retries)
        IN  IF e = ""
            THEN /\ obs' = [obs EXCEPT ![c] =
                       Log(o, "debug", Msg("Request to %s succeeded in %.2fs", 0, ""))]
                 /\ loc' = [loc EXCEPT ![c].pc = "done"]
                 /\ ret' = [ret EXCEPT ![c] = Return(127, Some(JsonLoads(out.body)))]
            ELSE /\ obs' = [obs EXCEPT ![c] =
                       IF h.next = "sleep"
                       THEN [h.obs EXCEPT !.sleeps = Append(@,
                               Backoff(args[c].backoff_factor, loc[c].attempt))]
                       ELSE h.obs]
                 /\ loc' = [loc EXCEPT ![c].pc =
                       IF h.next = "sleep" THEN "sleep" ELSE "done"]
                 /\ ret' = [ret EXCEPT ![c] =
                       CASE h.next = "return" -> Return(h.line, None)
                         [] h.next = "raise"  -> Raise(h.line, h.exc)
                         [] OTHER             -> NoRet]
    /\ UNCHANGED <<API_URL, fs, dirs, args, pre>>

(* lines 168, 120, 170-171: the sleep ends; the next turn of the loop, or *)
(* the end of the loop                                                    *)
make_request_sleep(c) ==
    /\ loc[c].pc = "sleep"
    /\ LET o == obs[c]
       IN  IF loc[c].attempt + 1 < args[c].max_retries
           THEN /\ obs' = [obs EXCEPT ![c] = o]
                /\ loc' = [loc EXCEPT ![c].pc = "get", ![c].attempt = @ + 1]
                /\ ret' = ret
           ELSE /\ obs' = [obs EXCEPT ![c] =
                      Log(o, "error", Msg("All retries failed for URL: %s", 0, ""))]
                /\ loc' = [loc EXCEPT ![c].pc = "done"]
                /\ ret' = [ret EXCEPT ![c] = Return(171, None)]
    /\ UNCHANGED <<API_URL, fs, dirs, args, pre>>

----------------------------------------------------------------------------
(* download_file *)

(* The destinations callers pass (file_path), None for a derived one *)
FilePaths == {None, Some(<<"downloads", "/", "a">>), Some(<<"out", "/", "f">>)}

(* Content-Disposition values of responses, <<>> when the header is absent *)
CdHeaders ==
    { <<>>,
      <<"attachment; ", "filename=", "\"", "a", "\"">>,
      <<"attachment; ", "filename=", "..", "/", "x">>,
      <<"attachment; ", "filename=", "%2F", "etc", "%2F", "x">> }

BodyLengths == {0, 3, CHUNK_SIZE, CHUNK_SIZE + 1}

(* What opening the stream meets: the exception session.stream raises ("" *)
(* when the response starts), and the response's status, headers and body *)
StreamOutcomes(url) ==
    IF HasScheme(url)
    THEN [exc : {""}, status : {200}, cd : CdHeaders, body : {"A"}, length : BodyLengths]
         \cup [exc : {""}, status : {302, 500}, cd : {<<>>}, body : JsonTexts, length : {3}]
         \cup [exc : {"TooManyRedirects", "ConnectError", "ReadTimeout", "RuntimeError"},
               status : {0}, cd : {<<>>}, body : {""}, length : {0}]
    ELSE [exc : {"UnsupportedProtocol"}, status : {0}, cd : {<<>>}, body : {""}, length : {0}]

DownloadResult(success, file_path, error) ==
    [success |-> success, file_path |-> file_path, error |-> error]

(* Response.json() and Response.text read Response.content, which raises  *)
(* ResponseNotRead for a response whose body was never read; a response   *)
(* of session.stream() is not read unless the code reads it               *)
ContentRaises(is_read) == IF is_read THEN "" ELSE "ResponseNotRead"

(* lines 174-189: the message, or the exception the classification raises *)
Classified(exc, msg) == [exc |-> exc, msg |-> msg]

_handle_http_error(e, response, is_read) ==
    IF isinstance(e, "TooManyRedirects")
    THEN Classified("", Msg("Too many redirects for %s: %s", 0, e))
    ELSE IF isinstance(e, "HTTPStatusError")
    THEN IF ContentRaises(is_read) # ""
         THEN Classified(ContentRaises(is_read), Msg("", 0, ""))
         ELSE IF IsJson(response.body) /\ HasKey(JsonLoads(response.body), "error")
         THEN Classified("", Msg("HTTP error %s for %s: %s", response.status,
                                 Get(JsonLoads(response.body), "error")))
         ELSE Classified("", Msg("HTTP error %s for %s. Body: %s", response.status, response.body))
    ELSE IF isinstance(e, "ReadTimeout")
    THEN Classified("", Msg("Read timeout for %s: %s", 0, e))
    ELSE IF isinstance(e, "RequestError")
    THEN Classified("", Msg("Request failed for %s: %s", 0, e))
    ELSE Classified("", Msg("Unexpected error for %s: %s", 0, e))

(* line 77 *)
EmptyUrlResult == DownloadResult(FALSE, None, Some(Msg("Empty URL provided", 0, "")))

(* a failure outcome without its error *)
FailureResult_bare(error_msg) == DownloadResult(FALSE, None, None)

(* line 106 *)
FailureResult(error_msg) == DownloadResult(FALSE, None, Some(error_msg))

(* lines 94 and 102 *)
SuccessResult(path) == DownloadResult(TRUE, Some(path), None)

(* lines 103-106: the except clause of download_file *)
except_download(o, e, response) ==
    LET h == _handle_http_error(e, response, FALSE) IN
    IF h.exc # ""
    THEN [obs |-> o, ret |-> Raise(179, h.exc)]
    ELSE [obs |-> Log(o, "error", h.msg), ret |-> Return(106, Some(FailureResult(h.msg)))]

(* a scope exit that closes nothing *)
Leave_leaks(l) == [l EXCEPT !.pc = "done"]

(* the scopes of lines 81 and 97 are left: what was open is closed *)
Closed(h) == IF h = "open" THEN "closed" ELSE h

Leave(l) == [l EXCEPT !.pc = "done", !.stream = Closed(@), !.f = Closed(@)]

(* a check that never finds the destination *)
SkipsExisting_never(files, ds, path, overwrite) == FALSE

(* line 93: path.exists() and not overwrite *)
SkipsExisting(files, ds, path, overwrite) == Exists(files, ds, path) /\ ~overwrite

(* lines 76-82: the call, up to the opening of the stream *)
download_file_enter(c, url, file_path, overwrite, headers) ==
    /\ args' = [args EXCEPT ![c] =
          [NoArgs EXCEPT !.op = "download_file", !.url = url,
                         !.file_path = file_path, !.overwrite = overwrite,
                         !.headers = headers]]
    /\ pre' = [pre EXCEPT ![c] = [fs |-> fs, dirs |-> dirs]]
    /\ obs' = [obs EXCEPT ![c] = NoObs]
    /\ IF IsEmptyUrl(url)
       THEN /\ loc' = [loc EXCEPT ![c] = [NoLocals EXCEPT !.pc = "done"]]
            /\ ret' = [ret EXCEPT ![c] = Return(77, Some(EmptyUrlResult))]
       ELSE /\ loc' = [loc EXCEPT ![c] =
                  [NoLocals EXCEPT !.pc = "stream",
                                   !.headers = _get_headers(url, headers)]]
            /\ ret' = [ret EXCEPT ![c] = NoRet]
    /\ UNCHANGED <<API_URL, fs, dirs>>

download_file_call(c) ==
    /\ CanCall(c)
    /\ \E url \in Urls, file_path \in FilePaths, overwrite \in BOOLEAN,
          headers \in BaseHeaders :
        download_file_enter(c, url, file_path, overwrite, headers)

(* lines 76-82 for tasks that download the same URL to the same           *)
(* destination with overwrite false                                       *)
download_file_call_same(c) ==
    /\ CanCall(c)
    /\ download_file_enter(c, <<"https:", "//", "api.x", "/", "b">>,
                           Some(<<"downloads", "/", "a">>), FALSE, NoHeaders)

(* lines 81-97: the stream opens; the status check, the destination, the  *)
(* existence check and the parent directories, up to the opening of the   *)
(* file                                                                   *)
download_file_stream(c) ==
    /\ loc[c].pc = "stream"
    /\ \E out \in StreamOutcomes(args[c].url) :
        LET o == [obs[c] EXCEPT !.nreq = @ + 1]
            response == [status |-> out.status, cd |-> out.cd,
                         body |-> out.body, length |-> out.length]
            path == ResolvePath(args[c].file_path, out.cd, args[c].url)
            made == Mkdir(fs, dirs, PathParent(path))
            e == IF out.exc # "" THEN out.exc
                 ELSE IF ~is_success(out.status) THEN "HTTPStatusError"
                 ELSE IF SkipsExisting(fs, dirs, path, args[c].overwrite) THEN ""
                 ELSE IF ~made.ok THEN "OSError"
                 ELSE ""
            x == except_download(o, e, response)
        IN  IF e # ""
            THEN /\ obs' = [obs EXCEPT ![c] = x.obs]
                 /\ ret' = [ret EXCEPT ![c] = x.ret]
                 /\ loc' = [loc EXCEPT ![c] =
                       [Leave(loc[c]) EXCEPT
                           !.stream = IF out.exc # "" THEN "none" ELSE "closed",
                           !.response = response,
                           !.path = IF out.exc = "" /\ is_success(out.status)
                                    THEN Some(path) ELSE None]]
                 /\ dirs' = IF e = "OSError" THEN made.dirs ELSE dirs
            ELSE IF SkipsExisting(fs, dirs, path, args[c].overwrite)
            THEN /\ obs' = [obs EXCEPT ![c] = o]
                 /\ ret' = [ret EXCEPT ![c] = Return(94, Some(SuccessResult(path)))]
                 /\ loc' = [loc EXCEPT ![c] =
                       [Leave(loc[c]) EXCEPT !.stream = "closed",
                                             !.response = response, !.path = Some(path)]]
                 /\ dirs' = dirs
            ELSE /\ obs' = [obs EXCEPT ![c] = o]
                 /\ ret' = ret
                 /\ loc' = [loc EXCEPT ![c].pc = "open", ![c].stream = "open",
                                       ![c].response = response, ![c].path = Some(path)]
                 /\ dirs' = made.dirs
    /\ UNCHANGED <<API_URL, fs, args, pre>>

(* line 97: aiofiles.open(path, "wb") ends: the file is created or       *)
(* truncated, or the open fails                                           *)
download_file_open(c) ==
    /\ loc[c].pc = "open"
    /\ LET path == The(loc[c].path)
           at == Lookup(dirs, path).at
           x == except_download(obs[c], "OSError", loc[c].response)
       IN  \E refused \in BOOLEAN :
            IF CanOpen(fs, dirs, path) /\ ~refused
            THEN /\ fs' = OpenWB(fs, at)
                 /\ loc' = [loc EXCEPT ![c].pc = "read", ![c].f = "open"]
                 /\ obs' = [obs EXCEPT ![c].opened = TRUE]
                 /\ ret' = ret
            ELSE /\ fs' = fs
                 /\ loc' = [loc EXCEPT ![c] = Leave(loc[c])]
                 /\ obs' = [obs EXCEPT ![c] = x.obs]
                 /\ ret' = [ret EXCEPT ![c] = x.ret]
    /\ UNCHANGED <<API_URL, dirs, args, pre>>

(* the body read in one piece (aiter_bytes() without a chunk size, or     *)
(* response.aread())                                                      *)
NextChunk_whole(length, received) == length - received

(* line 98: aiter_bytes(CHUNK_SIZE) yields CHUNK_SIZE bytes, or what is   *)
(* left of the body when that is less, and nothing when nothing is left   *)
NextChunk(length, received) ==
    IF length - received < CHUNK_SIZE THEN length - received ELSE CHUNK_SIZE

(* lines 98, 101-102: the next chunk arrives, or the body has ended (the  *)
(* file and the stream are closed and the call returns), or the read      *)
(* fails                                                                  *)
download_file_read(c) ==
    /\ loc[c].pc = "read"
    /\ \E e \in {"", "ReadTimeout", "ReadError"} :
        LET chunk == NextChunk(loc[c].response.length, loc[c].received)
            x == except_download(obs[c], e, loc[c].response)
        IN  IF e # ""
            THEN /\ loc' = [loc EXCEPT ![c] = Leave(loc[c])]
                 /\ obs' = [obs EXCEPT ![c] = x.obs]
                 /\ ret' = [ret EXCEPT ![c] = x.ret]
            ELSE IF chunk > 0
            THEN /\ loc' = [loc EXCEPT ![c].pc = "write", ![c].chunk = chunk]
                 /\ UNCHANGED <<obs, ret>>
            ELSE /\ loc' = [loc EXCEPT ![c] = Leave(loc[c])]
                 /\ obs' = [obs EXCEPT ![c] =
                       Log(obs[c], "debug", Msg("Successfully downloaded file to %s", 0, ""))]
                 /\ ret' = [ret EXCEPT ![c] =
                       Return(102, Some(SuccessResult(The(loc[c].path))))]
    /\ UNCHANGED <<API_URL, fs, dirs, args, pre>>

(* line 99: f.write(chunk) ends: the chunk is in the file at the handle's *)
(* offset, or the write fails                                             *)
download_file_write(c) ==
    /\ loc[c].pc = "write"
    /\ LET at == Lookup(dirs, The(loc[c].path)).at
           ext == Extent(loc[c].response.body, loc[c].received,
                         loc[c].received + loc[c].chunk)
           x == except_download(obs[c], "OSError", loc[c].response)
       IN  \E refused \in BOOLEAN :
            IF ~refused
            THEN /\ fs' = WriteFile(fs, at, loc[c].received, ext)
                 /\ loc' = [loc EXCEPT ![c].pc = "read",
                                       ![c].received = @ + loc[c].chunk,
                                       ![c].chunk = 0]
                 /\ obs' = [obs EXCEPT ![c].writes = Append(@, loc[c].chunk)]
                 /\ ret' = ret
            ELSE /\ fs' = fs
                 /\ loc' = [loc EXCEPT ![c] = Leave(loc[c])]
                 /\ obs' = [obs EXCEPT ![c] = x.obs]
                 /\ ret' = [ret EXCEPT ![c] = x.ret]
    /\ UNCHANGED <<API_URL, dirs, args, pre>>

(* the line of the await a call is suspended at *)
AwaitLine(pc) ==
    CASE pc = "stream" -> 81
      [] pc = "open"   -> 97
      [] pc = "read"   -> 98
      [] pc = "write"  -> 99
      [] OTHER         -> 0

(* lines 81-106: the caller's task is cancelled while the call is         *)
(* suspended: CancelledError is raised at the await, the scopes of lines  *)
(* 97 and 81 are left, and line 103 handles it only if it is an           *)
(* Exception. The open or the write the call was waiting for runs in a    *)
(* worker thread and may or may not have taken place                      *)
download_file_cancel(c) ==
    /\ loc[c].pc \in {"stream", "open", "read", "write"}
    /\ LET e == "CancelledError"
           x == IF isinstance(e, "Exception")
                THEN except_download(obs[c], e, loc[c].response)
                ELSE [obs |-> obs[c], ret |-> Raise(AwaitLine(loc[c].pc), e)]
       IN  /\ loc' = [loc EXCEPT ![c] = Leave(loc[c])]
           /\ ret' = [ret EXCEPT ![c] = x.ret]
           /\ \E ran \in BOOLEAN :
                IF ran /\ loc[c].pc = "open" /\ CanOpen(fs, dirs, The(loc[c].path))
                THEN /\ fs' = OpenWB(fs, Lookup(dirs, The(loc[c].path)).at)
                     /\ obs' = [obs EXCEPT ![c] = [x.obs EXCEPT !.cancelled = TRUE,
                                                                !.opened = TRUE]]
                ELSE IF ran /\ loc[c].pc = "write"
                THEN /\ fs' = WriteFile(fs, Lookup(dirs, The(loc[c].path)).at,
                                        loc[c].received,
                                        Extent(loc[c].response.body, loc[c].received,
                                               loc[c].received + loc[c].chunk))
                     /\ obs' = [obs EXCEPT ![c] = [x.obs EXCEPT !.cancelled = TRUE]]
                ELSE /\ fs' = fs
                     /\ obs' = [obs EXCEPT ![c] = [x.obs EXCEPT !.cancelled = TRUE]]
    /\ UNCHANGED <<API_URL, dirs, args, pre>>

----------------------------------------------------------------------------
(* The filesystem a call starts from: nothing downloaded yet; an earlier  *)
(* download in the downloads directory; and also a file where a parent    *)
(* directory of a destination would be                                    *)

OldContent == <<Extent("old", 0, 5)>>

InitialFilesystems ==
    { [dirs |-> {<<"/">>, CWD}, files |-> [q \in {} |-> <<>>]],
      [dirs |-> {<<"/">>, CWD, CWD \o <<"downloads">>},
       files |-> [q \in {CWD \o <<"downloads", "a">>} |-> OldContent]],
      [dirs |-> {<<"/">>, CWD, CWD \o <<"downloads">>},
       files |-> [q \in {CWD \o <<"downloads", "a">>, CWD \o <<"out">>} |-> OldContent]] }

Init ==
    /\ API_URL \in ApiUrls
    /\ \E i \in InitialFilesystems : fs = i.files /\ dirs = i.dirs
    /\ args = [c \in Calls |-> NoArgs]
    /\ loc = [c \in Calls |-> NoLocals]
    /\ obs = [c \in Calls |-> NoObs]
    /\ ret = [c \in Calls |-> NoRet]
    /\ pre = [c \in Calls |-> [fs |-> fs, dirs |-> dirs]]

Step1(c) ==
    \/ make_request_call(c)
    \/ make_request_get(c)
    \/ make_request_sleep(c)
    \/ download_file_call(c)
    \/ download_file_stream(c)
    \/ download_file_open(c)
    \/ download_file_read(c)
    \/ download_file_write(c)

(* One caller, one call at a time *)
Next == Step1("c1")

Spec == Init /\ [][Next]_vars

(* One caller whose task may be cancelled while a download is suspended *)
NextCancel == Next \/ download_file_cancel("c1")

SpecCancel == Init /\ [][NextCancel]_vars

(* Two tasks on one event loop: their steps interleave at the awaits *)
StepSame(c) ==
    \/ download_file_call_same(c)
    \/ download_file_stream(c)
    \/ download_file_open(c)
    \/ download_file_read(c)
    \/ download_file_write(c)

NextConcurrent == \E c \in Calls : StepSame(c)

SpecConcurrent == Init /\ [][NextConcurrent]_vars

----------------------------------------------------------------------------
(* Properties *)

Requests == {c \in Calls : args[c].op = "make_request"}
Downloads == {c \in Calls : args[c].op = "download_file"}

Returned(c) == loc[c].pc = "done" /\ ret[c].how = "return"
Raised(c) == loc[c].pc = "done" /\ ret[c].how = "raise"

(* C1: make_request never raises to its caller, whatever the attempts     *)
(* meet: a call that has ended has returned (the decoded body or None)    *)
C1_RequestNeverRaises ==
    \A c \in Requests : loc[c].pc = "done" => ret[c].how = "return"

(* C2: download_file never raises to its caller on a failure during the   *)
(* transfer: a call that has ended has returned a DownloadResult          *)
C2_DownloadNeverRaises ==
    \A c \in Downloads : loc[c].pc = "done" => ret[c].how = "return"

(* the origin of a URL: its scheme, host and port, the text before the    *)
(* first "/" of the path                                                  *)
RECURSIVE Origin(_)
Origin(url) ==
    IF url = <<>> \/ Head(url) = "/" THEN <<>> ELSE <<Head(url)>> \o Origin(Tail(url))

SameOrigin(url, base) == base # <<>> /\ Origin(url) = Origin(base)

HeadersBuilt(c) == args[c].op # "none" /\ ~IsEmptyUrl(args[c].url)

(* C3: when the caller's headers hold no X-API-Key, the headers of the    *)
(* request hold X-API-Key exactly when the URL's origin is the origin of  *)
(* API_URL (never when API_URL is empty)                                  *)
C3_KeyIffSameOrigin ==
    \A c \in Calls :
        HeadersBuilt(c) /\ "X-API-Key" \notin DOMAIN args[c].headers
        => ("X-API-Key" \in DOMAIN loc[c].headers <=> SameOrigin(args[c].url, API_URL))

(* C4: when the destination exists as the call is made and overwrite is   *)
(* false, download_file returns success without a request on the          *)
(* transport                                                              *)
C4_ShortCircuitBeforeRequest ==
    \A c \in Downloads :
        /\ Returned(c)
        /\ ~args[c].overwrite
        /\ loc[c].path # None
        /\ Exists(pre[c].fs, pre[c].dirs, The(loc[c].path))
        => obs[c].nreq = 0

(* the place a path names, from the working directory *)
RECURSIVE Place(_, _)
Place(at, parts) ==
    IF parts = <<>> THEN at ELSE Place(Step(at, Head(parts)), Tail(parts))

Inside(dir, path) ==
    LET d == Place(CWD, dir)
        p == Place(CWD, path)
    IN  StartsWith(p, d) /\ Len(p) > Len(d)

(* C5: without an explicit destination, the path that is checked for      *)
(* existence and written lies inside DOWNLOADS_DIR, whatever the file     *)
(* name                                                                   *)
C5_PathInsideDownloads ==
    \A c \in Downloads :
        args[c].file_path = None /\ loc[c].path # None
        => Inside(Path(DOWNLOADS_DIR), The(loc[c].path))

Last(seq) == seq[Len(seq)]

AllStatusErrors(c) ==
    \A i \in 1..Len(obs[c].seen) : obs[c].seen[i] = "HTTPStatusError"

(* C6: with max_retries >= 1 and every attempt ending in an HTTP status   *)
(* error, make_request sends exactly max_retries requests and then        *)
(* returns None                                                           *)
C6_ExactlyMaxRetriesRequests ==
    \A c \in Requests :
        args[c].url # <<>> /\ args[c].max_retries >= 1 /\ AllStatusErrors(c)
        => /\ obs[c].nreq <= args[c].max_retries
           /\ loc[c].pc = "done"
              => /\ obs[c].nreq = args[c].max_retries
                 /\ ret[c].how = "return"
                 /\ ret[c].value = None

C6_Witness ==
    \E c \in Requests :
        /\ args[c].max_retries = 3
        /\ obs[c].seen = <<"HTTPStatusError", "HTTPStatusError", "HTTPStatusError">>
        /\ obs[c].nreq = 3
        /\ Returned(c)

(* neither an HTTP status error, nor too many redirects, nor a transport  *)
(* error                                                                  *)
IsPermanent(e) ==
    /\ e # ""
    /\ ~isinstance(e, "HTTPStatusError")
    /\ ~isinstance(e, "TooManyRedirects")
    /\ ~isinstance(e, "RequestError")

(* C7: an attempt that meets a 2xx response with an invalid JSON body, or *)
(* an exception that is no status, redirect or transport error, ends the  *)
(* call at once: None is returned, the last log entry is an error, no     *)
(* request and no sleep follow the attempt                                *)
C7_PermanentFailureStops ==
    \A c \in Requests :
        obs[c].seen # <<>> /\ IsPermanent(Last(obs[c].seen))
        => /\ loc[c].pc = "done"
           /\ ret[c].how = "return"
           /\ ret[c].value = None
           /\ obs[c].nreq = Len(obs[c].seen)
           /\ Len(obs[c].sleeps) = Len(obs[c].seen) - 1
           /\ obs[c].log # <<>>
           /\ Last(obs[c].log).level = "error"

C7_Witness ==
    \E c \in Requests :
        /\ args[c].max_retries = 3
        /\ obs[c].seen = <<"HTTPStatusError", "JSONDecodeError">>
        /\ Len(obs[c].sleeps) = 1
        /\ Returned(c)

(* C8: with an empty URL download_file returns a failure with an error    *)
(* and make_request returns None; neither sends a request nor touches a   *)
(* file or a directory                                                    *)
C8_EmptyUrlFails ==
    \A c \in Calls :
        args[c].op # "none" /\ args[c].url = <<>>
        => /\ Returned(c)
           /\ obs[c].nreq = 0
           /\ fs = pre[c].fs
           /\ dirs = pre[c].dirs
           /\ args[c].op = "make_request" => ret[c].value = None
           /\ args[c].op = "download_file"
              => /\ ret[c].value # None
                 /\ ~The(ret[c].value).success
                 /\ The(ret[c].value).error # None
                 /\ The(The(ret[c].value).error).fmt # ""

C8_Witness ==
    \E c \in Downloads :
        /\ args[c].url = <<>>
        /\ Returned(c)
        /\ ret[c].value = Some(EmptyUrlResult)

(* C9: every DownloadResult download_file returns is well formed: success *)
(* has a file_path and no error, failure has an error and no file_path    *)
C9_OutcomeWellFormed ==
    \A c \in Downloads :
        Returned(c)
        => /\ ret[c].value # None
           /\ LET r == The(ret[c].value) IN
              /\ r.success => r.file_path # None /\ r.error = None
              /\ ~r.success => r.error # None /\ r.file_path = None

C9_Witness ==
    \E c \in Downloads :
        /\ Returned(c)
        /\ ret[c].line = 106
        /\ loc[c].received > 0
        /\ ~The(ret[c].value).success

(* C10: with the destination file there as the call is made, overwrite    *)
(* true and the transfer complete, download_file has sent a request and   *)
(* the file holds the response body and nothing else                      *)
C10_OverwriteReplaces ==
    \A c \in Downloads :
        /\ Returned(c)
        /\ The(ret[c].value).success
        /\ args[c].overwrite
        /\ Exists(pre[c].fs, pre[c].dirs, The(loc[c].path))
        => /\ obs[c].nreq = 1
           /\ Place(CWD, The(loc[c].path)) \in DOMAIN fs
           /\ fs[Place(CWD, The(loc[c].path))] = BodyContent(loc[c].response)

C10_Witness ==
    \E c \in Downloads :
        /\ Returned(c)
        /\ The(ret[c].value).success
        /\ args[c].overwrite
        /\ Place(CWD, The(loc[c].path)) \in DOMAIN pre[c].fs
        /\ Size(pre[c].fs[Place(CWD, The(loc[c].path))]) > loc[c].response.length
        /\ loc[c].response.length > 0

RECURSIVE Sum(_)
Sum(seq) == IF seq = <<>> THEN 0 ELSE Head(seq) + Sum(Tail(seq))

(* C11: a completed download of a body of N bytes has written exactly the *)
(* N bytes of the body, in order, in chunks of at most CHUNK_SIZE bytes   *)
(* whose sizes sum to N; no chunk in hand is larger than CHUNK_SIZE       *)
C11_StreamedInChunks ==
    \A c \in Downloads :
        /\ loc[c].chunk <= CHUNK_SIZE
        /\ \A i \in 1..Len(obs[c].writes) :
              obs[c].writes[i] > 0 /\ obs[c].writes[i] <= CHUNK_SIZE
        /\ Returned(c) /\ ret[c].line = 102
           => /\ Sum(obs[c].writes) = loc[c].response.length
              /\ fs[Place(CWD, The(loc[c].path))] = BodyContent(loc[c].response)

C11_Witness ==
    \E c \in Downloads :
        /\ Returned(c)
        /\ ret[c].line = 102
        /\ loc[c].response.length = CHUNK_SIZE + 1
        /\ obs[c].writes = <<CHUNK_SIZE, 1>>

(* an HTTP status error, too many redirects or a transport error *)
IsTransient(e) == isinstance(e, "HTTPStatusError") \/ isinstance(e, "RequestError")

AllTransient(seq) == \A i \in 1..Len(seq) : IsTransient(seq[i])

(* C12: when attempts 0..k-1 fail with transient errors and attempt       *)
(* k < max_retries meets a 2xx response with valid JSON, make_request     *)
(* returns the decoded body after exactly k+1 requests and k sleeps: a    *)
(* transient failure that is not the last attempt lets the call go on to  *)
(* the next attempt, and the first success ends it                        *)
C12_FirstSuccessEndsLoop ==
    \A c \in Requests :
        /\ /\ obs[c].seen # <<>>
           /\ Last(obs[c].seen) = ""
           /\ AllTransient(SubSeq(obs[c].seen, 1, Len(obs[c].seen) - 1))
           => /\ Returned(c)
              /\ ret[c].line = 127
              /\ ret[c].value # None
              /\ obs[c].nreq = Len(obs[c].seen)
              /\ Len(obs[c].sleeps) = Len(obs[c].seen) - 1
        /\ /\ obs[c].seen # <<>>
           /\ AllTransient(obs[c].seen)
           /\ Len(obs[c].seen) < args[c].max_retries
           => loc[c].pc # "done"

(* C13: every download_file call that returns success = False and every   *)
(* make_request call that returns None has logged at least one entry      *)
C13_EveryFailureLogged ==
    \A c \in Calls :
        /\ Returned(c)
        /\ \/ args[c].op = "make_request" /\ ret[c].value = None
           \/ args[c].op = "download_file" /\ ~The(ret[c].value).success
        => obs[c].log # <<>>

(* C14: a sleep follows only a transient failure of an attempt that is    *)
(* not the last; the sleep after attempt k lasts backoff_factor * 2^k;    *)
(* nothing sleeps after the call has ended, so a call that used up its    *)
(* max_retries >= 1 attempts has slept max_retries - 1 times              *)
C14_BackoffSchedule ==
    \A c \in Requests :
        /\ \A i \in 1..Len(obs[c].sleeps) :
              /\ obs[c].sleeps[i] = args[c].backoff_factor * (2 ^ (i - 1))
              /\ i <= Len(obs[c].seen)
              /\ IsTransient(obs[c].seen[i])
              /\ i - 1 < args[c].max_retries - 1
        /\ loc[c].pc = "done" /\ obs[c].seen # <<>>
           => Len(obs[c].sleeps) = Len(obs[c].seen) - 1
        /\ loc[c].pc = "done" /\ obs[c].seen = <<>> => obs[c].sleeps = <<>>
        /\ loc[c].pc \in {"get", "sleep"} => Len(obs[c].sleeps) = Len(obs[c].seen)
        /\ loc[c].pc = "done" /\ args[c].max_retries >= 1
              /\ obs[c].nreq = args[c].max_retries
           => Len(obs[c].sleeps) = args[c].max_retries - 1

C14_Witness ==
    \E c \in Requests :
        /\ loc[c].pc = "done"
        /\ args[c].max_retries = 3
        /\ args[c].backoff_factor = 2 * BACKOFF_FACTOR
        /\ obs[c].nreq = 3
        /\ obs[c].sleeps = <<2 * BACKOFF_FACTOR, 4 * BACKOFF_FACTOR>>
        /\ AllTransient(obs[c].seen)

CountLevel(log, level) == Cardinality({i \in 1..Len(log) : log[i].level = level})

(* the number of attempts that were the last one allowed *)
FinalSeen(c) == IF Len(obs[c].seen) = args[c].max_retries THEN 1 ELSE 0

(* C15: each transient failure of an attempt that is not the last is      *)
(* logged as a warning and not as an error; a transient failure of the    *)
(* last attempt is logged as an error and not as a warning                *)
C15_LevelByAttempt ==
    \A c \in Requests :
        obs[c].seen # <<>> /\ AllTransient(obs[c].seen)
        => /\ CountLevel(obs[c].log, "warning") = Len(obs[c].seen) - FinalSeen(c)
           /\ CountLevel(obs[c].log, "error") = FinalSeen(c)

SameDestination(c, d) ==
    /\ loc[c].path # None
    /\ loc[d].path # None
    /\ Place(CWD, The(loc[c].path)) = Place(CWD, The(loc[d].path))

(* C18: of two download_file calls with overwrite false for the same      *)
(* destination, at most one opens the file for writing                    *)
C18_AtMostOneWriter ==
    \A c, d \in Downloads :
        /\ c # d
        /\ ~args[c].overwrite
        /\ ~args[d].overwrite
        /\ SameDestination(c, d)
        => ~(obs[c].opened /\ obs[d].opened)

(* the call has ended without a success outcome *)
Failed(c) == Raised(c) \/ (Returned(c) /\ ~The(ret[c].value).success)

(* every file of before is still there with the content of before *)
Preserved(before, after) ==
    \A q \in DOMAIN before : q \in DOMAIN after /\ after[q] = before[q]

(* C19, as stated: after a download_file call that returns success =      *)
(* False, every file that existed before the call still exists with its   *)
(* content of before                                                      *)
C19_FailurePreservesContent ==
    \A c \in Downloads :
        Returned(c) /\ ~The(ret[c].value).success => Preserved(pre[c].fs, fs)

(* C19, amended: a download_file call that ends without success and       *)
(* without having opened the destination leaves every file as it was; on  *)
(* a non-2xx status it has opened nothing and created no directory. A     *)
(* call that ends without success after opening the destination leaves    *)
(* the destination in existence, holding the bytes of the body written    *)
(* before the failure instead of its content of before, and every other   *)
(* file as it was                                                         *)
C19_FailureKeepsUnopened ==
    \A c \in Downloads :
        Failed(c)
        => /\ ~obs[c].opened => fs = pre[c].fs
           /\ loc[c].response.status # 0 /\ ~is_success(loc[c].response.status)
              => ~obs[c].opened /\ dirs = pre[c].dirs
           /\ obs[c].opened
              => LET at == Lookup(dirs, The(loc[c].path)).at IN
                 /\ at \in DOMAIN fs
                 /\ fs[at] = TakeBytes(BodyContent(loc[c].response), loc[c].received)
                 /\ \A q \in DOMAIN pre[c].fs \ {at} :
                       q \in DOMAIN fs /\ fs[q] = pre[c].fs[q]

C19_Witness ==
    \E c \in Downloads :
        /\ Returned(c)
        /\ ~The(ret[c].value).success
        /\ args[c].overwrite
        /\ obs[c].opened
        /\ loc[c].received = CHUNK_SIZE
        /\ loc[c].response.length = CHUNK_SIZE + 1
        /\ Lookup(dirs, The(loc[c].path)).at \in DOMAIN pre[c].fs
        /\ pre[c].fs[Lookup(dirs, The(loc[c].path)).at] = OldContent
        /\ fs[Lookup(dirs, The(loc[c].path)).at] = <<Extent("A", 0, CHUNK_SIZE)>>

Max(a, b) == IF a > b THEN a ELSE b

(* C20: a make_request call with a non-empty URL issues at most           *)
(* max_retries requests and at most max(max_retries - 1, 0) sleeps, and   *)
(* it ends by returning; with max_retries = 0 it issues no request, logs  *)
(* the 'All retries failed' error and returns None; and when every        *)
(* attempt has failed transiently it returns None with an error-level     *)
(* entry as the last of its log                                           *)
C20_BoundedTermination ==
    \A c \in Requests :
        ~IsEmptyUrl(args[c].url)
        => /\ obs[c].nreq <= args[c].max_retries
           /\ Len(obs[c].sleeps) <= Max(args[c].max_retries - 1, 0)
           /\ loc[c].pc = "done" => Returned(c)
           /\ args[c].max_retries = 0
              => /\ Returned(c)
                 /\ ret[c].line = 171
                 /\ ret[c].value = None
                 /\ obs[c].nreq = 0
                 /\ obs[c].log =
                       <<[level |-> "error",
                          msg |-> Msg("All retries failed for URL: %s", 0, "")]>>
           /\ /\ loc[c].pc = "done"
              /\ obs[c].nreq = args[c].max_retries
              /\ AllTransient(obs[c].seen)
              /\ args[c].max_retries >= 1
              => /\ Returned(c)
                 /\ ret[c].value = None
                 /\ Last(obs[c].log).level = "error"

====
